---- MODULE Spec2Model ----
(***************************************************************************)
(* A model of streamlit_app.py: a linear script that resolves an API key   *)
(* (host secret store first, then the environment), constructs a           *)
(* genai.Client, sends one fixed prompt and shows the response or an error *)
(* on stdout (plain python run) or on the Streamlit page.                  *)
(*                                                                         *)
(* Python strings are sequences of tokens; the Japanese literals of the    *)
(* script are written as ASCII tokens (each noted with its line).  A       *)
(* Python value that may be None is a record tagged with its type.         *)
(***************************************************************************)
EXTENDS Integers, Sequences, FiniteSets, TLC

VARIABLES
    pc,              \* position of the interpreter in the script
    sys_modules,     \* names of the modules loaded so far (sys.modules)
    st,              \* what the name st is bound to
    secrets,         \* what the host's store holds under "GEMINI_API_KEY"
    environ,         \* os.environ's entry for "GEMINI_API_KEY"
    GEMINI_API_KEY,  \* the script's global of that name
    envReads,        \* number of os.environ.get calls made
    client,          \* the script's global client
    clientCalls,     \* api_key argument of each genai.Client(...) call
    requests,        \* arguments of each generate_content(...) call
    response,        \* the script's global response
    caught,          \* exceptions caught by the two except clauses
    stdout,          \* lines written by print
    page,            \* elements rendered through st.error/header/code/markdown
    halt,            \* how the run ended, "running" before that
    exitCode         \* {} while no exit status exists, else {status}

vars == <<pc, sys_modules, st, secrets, environ, GEMINI_API_KEY, envReads,
          client, clientCalls, requests, response, caught, stdout, page,
          halt, exitCode>>

----------------------------------------------------------------------------
(* Bounds of the inputs.                                                   *)

MaxKeyLen == 1
MaxTextLen == 2

Chars == {"a", "b"}

StrUpTo(n) == UNION {[1..k -> Chars] : k \in 0..n}

(* Python values.                                                          *)
PyNone == [type |-> "NoneType"]

PyStr(s) == [type |-> "str", value |-> s]

Unbound == [type |-> "unbound"]

\* a key as a source can hold it: missing (None), "" or a non-empty string
KeyValues == {PyNone} \cup {PyStr(s) : s \in StrUpTo(MaxKeyLen)}

\* texts a response can carry and messages an exception can carry
Texts == StrUpTo(MaxTextLen)

\* Python truth value test, as used by: if not GEMINI_API_KEY
FalsyNoneOnly(v) == v = PyNone

Falsy(v) == v = PyNone \/ (v.type = "str" /\ v.value = <<>>)

\* s * n for a one-token string s
Repeat(s, n) == [i \in 1..n |-> s]

Contains(s, t) ==
    \E i \in 1..(Len(s) + 1) :
        /\ i + Len(t) - 1 <= Len(s)
        /\ SubSeq(s, i, i + Len(t) - 1) = t

----------------------------------------------------------------------------
(* The script's constants.                                                 *)

SeparatorWidth == 50

model_name == <<"gemini-2.5-flash">>

\* line 68: the fixed Japanese prompt
prompt_text == <<"How do I build a web server in Python most simply, with code?">>

SwappedRequest == [model |-> prompt_text, contents |-> model_name]

\* lines 84-87: the arguments of generate_content
GenerationRequest == [model |-> model_name, contents |-> prompt_text]

\* 'streamlit' in sys.modules
InteractiveMode == "streamlit" \in sys_modules

DummyGetLeaksStore(key, default) == secrets

\* lines 11-13: DummyStreamlit.get
DummyStreamlit_get(key, default) == default

\* line 21: st.get("GEMINI_API_KEY"), default None
st_get(key) ==
    IF st = "DummyStreamlit" THEN DummyStreamlit_get(key, PyNone) ELSE secrets

----------------------------------------------------------------------------
(* Texts the script builds.                                                *)

\* lines 29-31
MissingKeyLines ==
    << <<"--- WARNING ERROR ---">>,
       <<"API key is not set.">>,
       <<"Set the key in Streamlit Secrets or environment variable 'GEMINI_API_KEY'.">> >>

\* line 37
MissingKeyNotice ==
    <<"API key is not set. Set GEMINI_API_KEY in Secrets or an environment variable.">>

ClientInitMessageNoCause(e) == <<"Fatal error: client initialisation failed: ">>

\* line 51
ClientInitMessage(e) == <<"Fatal error: client initialisation failed: ">> \o e

GenerationMessageNoCause(e) == <<"An error occurred during the API call: ">>

\* line 102
GenerationMessage(e) == <<"An error occurred during the API call: ">> \o e

\* line 107
ErrorDetailLine(e) == <<"Error detail: ">> \o e

\* line 56
FatalHeaderLine == <<"--- Fatal error ---">>

\* line 48
ClientReadyLine == <<"Client initialised successfully.">>

\* line 97
ResponseHeaderLine == <<"\n", "--- Gemini response ---">>

\* line 99
ResponseFooterLine == <<"-------------------------">>

\* line 106
GenerationErrorHeaderLine == <<"\n", "--- An error occurred during the API call ---">>

\* line 92
ResponseHeading == <<"Gemini response">>

BannerWithoutModel ==
    << <<"\n">> \o Repeat("=", SeparatorWidth),
       <<"Prompt: ">> \o prompt_text,
       Repeat("=", SeparatorWidth) >>

\* lines 77-80
Banner ==
    << <<"\n">> \o Repeat("=", SeparatorWidth),
       <<"Prompt: ">> \o prompt_text,
       <<"Model: ">> \o model_name,
       Repeat("=", SeparatorWidth) >>

Element(kind, body) == [kind |-> kind, body |-> body]

RenderedPromptAsBody(text) ==
    << Element("header", ResponseHeading),
       Element("code", prompt_text),
       Element("markdown", prompt_text) >>

\* lines 92-94
RenderedResponse(text) ==
    << Element("header", ResponseHeading),
       Element("code", prompt_text),
       Element("markdown", text) >>

\* lines 97-99
PrintedResponse(text) == <<ResponseHeaderLine, text, ResponseFooterLine>>

----------------------------------------------------------------------------
Init ==
    /\ pc = "import"
    /\ sys_modules = {"os", "sys", "google.genai"}
    /\ st = "unbound"
    /\ secrets \in KeyValues
    /\ environ \in KeyValues
    /\ GEMINI_API_KEY = Unbound
    /\ envReads = 0
    /\ client = Unbound
    /\ clientCalls = <<>>
    /\ requests = <<>>
    /\ response = Unbound
    /\ caught = <<>>
    /\ stdout = <<>>
    /\ page = <<>>
    /\ halt = "running"
    /\ exitCode = {}

\* lines 7-14: import streamlit, or fall back to the dummy on ImportError
ImportStreamlit ==
    /\ pc = "import"
    /\ \E importable \in BOOLEAN :
          IF importable
          THEN /\ sys_modules' = sys_modules \cup {"streamlit"}
               /\ st' = "streamlit"
          ELSE /\ sys_modules' = sys_modules
               /\ st' = "DummyStreamlit"
    /\ pc' = "secrets"
    /\ UNCHANGED <<secrets, environ, GEMINI_API_KEY, envReads, client,
                   clientCalls, requests, response, caught, stdout, page,
                   halt, exitCode>>

\* line 21
ReadSecrets ==
    /\ pc = "secrets"
    /\ GEMINI_API_KEY' = st_get("GEMINI_API_KEY")
    /\ pc' = "environ"
    /\ UNCHANGED <<sys_modules, st, secrets, environ, envReads, client,
                   clientCalls, requests, response, caught, stdout, page,
                   halt, exitCode>>

ReadEnvironAlways ==
    /\ pc = "environ"
    /\ GEMINI_API_KEY' = environ
    /\ envReads' = envReads + 1
    /\ pc' = "check"
    /\ UNCHANGED <<sys_modules, st, secrets, environ, client, clientCalls,
                   requests, response, caught, stdout, page, halt, exitCode>>

\* lines 24-25
ReadEnviron ==
    /\ pc = "environ"
    /\ IF Falsy(GEMINI_API_KEY)
       THEN /\ GEMINI_API_KEY' = environ
            /\ envReads' = envReads + 1
       ELSE UNCHANGED <<GEMINI_API_KEY, envReads>>
    /\ pc' = "check"
    /\ UNCHANGED <<sys_modules, st, secrets, environ, client, clientCalls,
                   requests, response, caught, stdout, page, halt, exitCode>>

CheckKeyFallsThrough ==
    /\ pc = "check"
    /\ IF Falsy(GEMINI_API_KEY)
       THEN /\ stdout' = stdout \o MissingKeyLines
            /\ page' = IF InteractiveMode
                       THEN Append(page, Element("error", MissingKeyNotice))
                       ELSE page
       ELSE UNCHANGED <<stdout, page>>
    /\ pc' = "client"
    /\ UNCHANGED <<sys_modules, st, secrets, environ, GEMINI_API_KEY,
                   envReads, client, clientCalls, requests, response, caught,
                   halt, exitCode>>

\* lines 28-38
CheckKey ==
    /\ pc = "check"
    /\ IF Falsy(GEMINI_API_KEY)
       THEN /\ stdout' = stdout \o MissingKeyLines
            /\ IF ~InteractiveMode
               THEN /\ halt' = "sys.exit"
                    /\ exitCode' = {1}
                    /\ page' = page
               ELSE /\ page' = Append(page, Element("error", MissingKeyNotice))
                    /\ halt' = "st.stop"
                    /\ exitCode' = exitCode
            /\ pc' = "done"
       ELSE /\ pc' = "client"
            /\ UNCHANGED <<stdout, page, halt, exitCode>>
    /\ UNCHANGED <<sys_modules, st, secrets, environ, GEMINI_API_KEY,
                   envReads, client, clientCalls, requests, response, caught>>

\* lines 40-58: genai.Client(api_key=GEMINI_API_KEY) returns a handle or
\* raises an exception whose text is e
CreateClient ==
    /\ pc = "client"
    /\ clientCalls' = Append(clientCalls, GEMINI_API_KEY)
    /\ \/ /\ client' = [type |-> "Client", api_key |-> GEMINI_API_KEY]
          /\ stdout' = IF ~InteractiveMode
                       THEN Append(stdout, ClientReadyLine)
                       ELSE stdout
          /\ pc' = "banner"
          /\ UNCHANGED <<caught, page, halt, exitCode>>
       \/ \E e \in Texts :
             /\ caught' = Append(caught, [site |-> "Client", text |-> e])
             /\ IF InteractiveMode
                THEN /\ page' = Append(page, Element("error", ClientInitMessage(e)))
                     /\ halt' = "st.stop"
                     /\ UNCHANGED <<stdout, exitCode>>
                ELSE /\ stdout' = stdout \o <<FatalHeaderLine, ClientInitMessage(e)>>
                     /\ halt' = "sys.exit"
                     /\ exitCode' = {1}
                     /\ page' = page
             /\ pc' = "done"
             /\ client' = client
    /\ UNCHANGED <<sys_modules, st, secrets, environ, GEMINI_API_KEY,
                   envReads, requests, response>>

\* lines 76-80
ShowRequest ==
    /\ pc = "banner"
    /\ stdout' = IF ~InteractiveMode THEN stdout \o Banner ELSE stdout
    /\ pc' = "generate"
    /\ UNCHANGED <<sys_modules, st, secrets, environ, GEMINI_API_KEY,
                   envReads, client, clientCalls, requests, response, caught,
                   page, halt, exitCode>>

\* lines 82-107: one generate_content call, which returns a response with a
\* text or raises an exception whose text is e
Generate ==
    /\ pc = "generate"
    /\ requests' = Append(requests, GenerationRequest)
    /\ \/ \E text \in Texts :
             /\ response' = [type |-> "Response", text |-> text]
             /\ IF InteractiveMode
                THEN /\ page' = page \o RenderedResponse(text)
                     /\ stdout' = stdout
                ELSE /\ stdout' = stdout \o PrintedResponse(text)
                     /\ page' = page
             /\ caught' = caught
       \/ \E e \in Texts :
             /\ caught' = Append(caught, [site |-> "generate_content", text |-> e])
             /\ IF InteractiveMode
                THEN /\ page' = Append(page, Element("error", GenerationMessage(e)))
                     /\ stdout' = stdout
                ELSE /\ stdout' = stdout \o <<GenerationErrorHeaderLine, ErrorDetailLine(e)>>
                     /\ page' = page
             /\ response' = response
    /\ pc' = "end"
    /\ UNCHANGED <<sys_modules, st, secrets, environ, GEMINI_API_KEY,
                   envReads, client, clientCalls, halt, exitCode>>

\* line 108: the script runs off its end; a plain python process exits with
\* status 0, a Streamlit script run just finishes
Finish ==
    /\ pc = "end"
    /\ halt' = "end"
    /\ exitCode' = IF InteractiveMode THEN exitCode ELSE {0}
    /\ pc' = "done"
    /\ UNCHANGED <<sys_modules, st, secrets, environ, GEMINI_API_KEY,
                   envReads, client, clientCalls, requests, response, caught,
                   stdout, page>>

Next ==
    \/ ImportStreamlit
    \/ ReadSecrets
    \/ ReadEnviron
    \/ CheckKey
    \/ CreateClient
    \/ ShowRequest
    \/ Generate
    \/ Finish

Spec == Init /\ [][Next]_vars

----------------------------------------------------------------------------
(* Vocabulary of the properties.                                           *)

\* an empty or absent credential value
Absent(v) == v = PyNone \/ v = PyStr(<<>>)

\* what the secret store yielded for the key, once st is bound
StoreYield == st_get("GEMINI_API_KEY")

AfterEnviron == {"check", "client", "banner", "generate", "end", "done"}

AfterCheck == AfterEnviron \ {"check"}

AfterClient == AfterCheck \ {"client"}

HasLine(line) == \E j \in DOMAIN stdout : stdout[j] = line

HasLineWith(t) == \E j \in DOMAIN stdout : Contains(stdout[j], t)

HasElement(kind, body) == \E j \in DOMAIN page : page[j] = Element(kind, body)

HasErrorWith(t) ==
    \E j \in DOMAIN page : page[j].kind = "error" /\ Contains(page[j].body, t)

ClientFailed == \E i \in DOMAIN caught : caught[i].site = "Client"

GenerationFailed == \E i \in DOMAIN caught : caught[i].site = "generate_content"

ResponseShown ==
    \/ \E j \in DOMAIN page : page[j].kind = "markdown"
    \/ HasLine(<<"\n", "--- Gemini response ---">>)

GenerationErrorShown ==
    \/ HasErrorWith(<<"An error occurred during the API call: ">>)
    \/ HasLine(<<"\n", "--- An error occurred during the API call ---">>)

----------------------------------------------------------------------------
\* C1: whenever the secret store yields a non-empty value, the environment
\* variable is never read, the resolved key is that value, and the one
\* api_key handed to genai.Client is exactly that value.
C1_SecretStoreWins ==
    (pc \in AfterEnviron /\ ~Absent(StoreYield)) =>
        /\ envReads = 0
        /\ GEMINI_API_KEY = StoreYield
        /\ \A i \in DOMAIN clientCalls : clientCalls[i] = StoreYield
        /\ pc \in AfterClient => clientCalls = <<StoreYield>>

C1_Witness ==
    /\ pc = "done"
    /\ st = "streamlit"
    /\ ~Absent(secrets)
    /\ ~Absent(environ)
    /\ environ # secrets
    /\ clientCalls = <<secrets>>
    /\ envReads = 0

\* C2: when the secret store yields an empty or absent value the environment
\* variable is read next; when that is empty or absent too, the run stops at
\* the key check: no genai.Client call, no client, no generate_content call,
\* exit status 1 in a plain python run and st.stop() on the page otherwise.
C2_MissingCredentialStops ==
    /\ (pc \in AfterEnviron /\ Absent(StoreYield)) =>
           /\ envReads = 1
           /\ GEMINI_API_KEY = environ
    /\ (st # "unbound" /\ Absent(StoreYield) /\ Absent(environ)) =>
           /\ clientCalls = <<>>
           /\ client = Unbound
           /\ requests = <<>>
           /\ pc \notin AfterCheck \ {"done"}
    /\ (pc = "done" /\ Absent(StoreYield) /\ Absent(environ)) =>
           IF InteractiveMode
           THEN halt = "st.stop" /\ exitCode = {}
           ELSE halt = "sys.exit" /\ exitCode = {1}

C2_Witness ==
    /\ pc = "done"
    /\ ~InteractiveMode
    /\ Absent(environ)
    /\ envReads = 1
    /\ exitCode = {1}
    /\ requests = <<>>

\* C3 as stated: every finished run has made exactly one genai.Client call,
\* and no call or client carries an empty or absent key.
C3_ExactlyOncePerRun ==
    /\ pc = "done" => Len(clientCalls) = 1
    /\ \A i \in DOMAIN clientCalls : ~Absent(clientCalls[i])
    /\ client # Unbound => ~Absent(client.api_key)

\* C3 amended: genai.Client is called at most once per run: exactly once in
\* every run that resolved a non-empty key and never in a run that did not;
\* the call comes after the resolution and carries the resolved key, and no
\* client exists with an empty or absent key.
C3_AtMostOnceAfterKey ==
    /\ Len(clientCalls) <= 1
    /\ pc \in AfterClient =>
           IF Absent(GEMINI_API_KEY)
           THEN clientCalls = <<>>
           ELSE clientCalls = <<GEMINI_API_KEY>>
    /\ clientCalls # <<>> => pc \in AfterClient
    /\ \A i \in DOMAIN clientCalls : ~Absent(clientCalls[i])
    /\ client # Unbound =>
           /\ ~Absent(client.api_key)
           /\ clientCalls = <<client.api_key>>

C3_Witness ==
    /\ pc = "done"
    /\ Len(clientCalls) = 1
    /\ client # Unbound
    /\ client.api_key = environ
    /\ envReads = 1

\* C4 as stated: every finished run has issued exactly one request, which
\* carries the fixed model identifier and prompt, also after a failure.
C4_ExactlyOneRequestPerRun ==
    /\ pc = "done" => Len(requests) = 1
    /\ \A i \in DOMAIN requests :
           requests[i] = [model |-> <<"gemini-2.5-flash">>, contents |-> prompt_text]

\* C4 amended: a run issues at most one request: exactly one when the client
\* was constructed, none when the run stopped at the key check or at client
\* construction; the request carries the fixed model identifier and prompt
\* and is not issued again after a failure.
C4_OneRequestOnceClientExists ==
    /\ Len(requests) <= 1
    /\ pc \in {"end", "done"} => (Len(requests) = 1 <=> client # Unbound)
    /\ requests # <<>> => client # Unbound /\ pc \in {"end", "done"}
    /\ GenerationFailed => Len(requests) = 1
    /\ \A i \in DOMAIN requests :
           requests[i] = [model |-> <<"gemini-2.5-flash">>, contents |-> prompt_text]

C4_Witness ==
    /\ pc = "done"
    /\ GenerationFailed
    /\ Len(requests) = 1

\* C5: when generate_content raises, the error message with the exception's
\* text is shown (on the page or on stdout), nothing stops the run, and it
\* ends normally: exit status 0 in a plain python run.
C5_GenerationErrorNotFatal ==
    \A i \in DOMAIN caught :
        caught[i].site = "generate_content" =>
            /\ pc \in {"end", "done"}
            /\ IF InteractiveMode
               THEN /\ HasErrorWith(caught[i].text)
                    /\ page[Len(page)].kind = "error"
                    /\ Len(page[Len(page)].body) = Len(caught[i].text) + 1
               ELSE /\ HasLineWith(caught[i].text)
                    /\ Len(stdout[Len(stdout)]) = Len(caught[i].text) + 1
            /\ halt \in {"running", "end"}
            /\ exitCode \subseteq {0}
            /\ pc = "done" =>
                   /\ halt = "end"
                   /\ ~InteractiveMode => exitCode = {0}

C5_Witness ==
    /\ pc = "done"
    /\ ~InteractiveMode
    /\ \E i \in DOMAIN caught :
           caught[i].site = "generate_content" /\ caught[i].text # <<>>
    /\ exitCode = {0}

\* C6: when genai.Client raises, a message with the exception's text is
\* shown, the run ends there (exit status 1 in a plain python run, st.stop()
\* on the page), and no request is issued.
C6_ClientInitErrorFatal ==
    \A i \in DOMAIN caught :
        caught[i].site = "Client" =>
            /\ pc = "done"
            /\ requests = <<>>
            /\ client = Unbound
            /\ response = Unbound
            /\ IF InteractiveMode
               THEN /\ HasErrorWith(caught[i].text)
                    /\ Len(page[Len(page)].body) = Len(caught[i].text) + 1
                    /\ halt = "st.stop"
                    /\ exitCode = {}
               ELSE /\ HasLineWith(caught[i].text)
                    /\ Len(stdout[Len(stdout)]) = Len(caught[i].text) + 1
                    /\ halt = "sys.exit"
                    /\ exitCode = {1}

C6_Witness ==
    /\ pc = "done"
    /\ InteractiveMode
    /\ \E i \in DOMAIN caught : caught[i].site = "Client" /\ caught[i].text # <<>>
    /\ halt = "st.stop"

C8_ResponseShownExactly ==
    /\ response # Unbound =>
           /\ pc \in {"end", "done"}
           /\ IF InteractiveMode
              THEN /\ page[Len(page)] = Element("markdown", response.text)
                   /\ Cardinality({j \in DOMAIN page : page[j].kind = "markdown"}) = 1
              ELSE \E j \in DOMAIN stdout :
                      /\ stdout[j] = <<"\n", "--- Gemini response ---">>
                      /\ j < Len(stdout)
                      /\ stdout[j + 1] = response.text
           /\ ResponseShown
           /\ ~GenerationFailed
    /\ GenerationFailed => GenerationErrorShown /\ response = Unbound
    /\ ~(ResponseShown /\ GenerationErrorShown)

C8_Witness ==
    /\ pc = "done"
    /\ InteractiveMode
    /\ response # Unbound
    /\ response.text # <<>>
    /\ HasElement("markdown", response.text)

\* C9 as stated: on the page a successful run shows the prompt as a code
\* block, the model identifier and the response as markdown; on stdout a run
\* that reached the request shows the prompt, the model identifier and the
\* response text or the error message.
C9_ModelShownInBothModes ==
    /\ (InteractiveMode /\ response # Unbound) =>
           /\ HasElement("code", prompt_text)
           /\ \E j \in DOMAIN page : Contains(page[j].body, <<"gemini-2.5-flash">>)
           /\ HasElement("markdown", response.text)
    /\ (~InteractiveMode /\ requests # <<>>) =>
           /\ HasLineWith(prompt_text)
           /\ HasLineWith(<<"gemini-2.5-flash">>)
           /\ \/ response # Unbound /\ HasLine(response.text)
              \/ \E i \in DOMAIN caught :
                    caught[i].site = "generate_content" /\ HasLineWith(caught[i].text)

\* C9 amended: on the page a successful run shows a fixed heading, the
\* prompt as a code block and the response as markdown, and the model
\* identifier is not shown there; on stdout a run that reached the request
\* shows the prompt, the model identifier and the response text or the error
\* message.
C9_ModelShownOnStdoutOnly ==
    /\ (InteractiveMode /\ response # Unbound) =>
           /\ page = << Element("header", <<"Gemini response">>),
                        Element("code", prompt_text),
                        Element("markdown", response.text) >>
    /\ InteractiveMode =>
           \A j \in DOMAIN page : ~Contains(page[j].body, <<"gemini-2.5-flash">>)
    /\ (~InteractiveMode /\ requests # <<>>) =>
           /\ HasLineWith(prompt_text)
           /\ HasLineWith(<<"gemini-2.5-flash">>)
           /\ \/ response # Unbound /\ HasLine(response.text)
              \/ \E i \in DOMAIN caught :
                    caught[i].site = "generate_content" /\ HasLineWith(caught[i].text)

C9_Witness ==
    /\ pc = "done"
    /\ InteractiveMode
    /\ response # Unbound
    /\ Len(page) = 3

\* C10: the run is a plain python (stdout) run exactly when st is the
\* DummyStreamlit, whose get yields None; so there a resolved key is the
\* environment's, and a key that was handed to genai.Client without reading
\* the environment (the secret store's) is found on a Streamlit page only.
C10_ModeCoupledToStore ==
    /\ st # "unbound" => (~InteractiveMode <=> st = "DummyStreamlit")
    /\ (~InteractiveMode /\ pc = "environ") => GEMINI_API_KEY = PyNone
    /\ (~InteractiveMode /\ pc \in AfterEnviron) =>
           /\ envReads = 1
           /\ GEMINI_API_KEY = environ
           /\ \A i \in DOMAIN clientCalls : clientCalls[i] = environ
    /\ (clientCalls # <<>> /\ envReads = 0) =>
           /\ InteractiveMode
           /\ clientCalls = <<secrets>>

C10_Witness ==
    /\ pc = "done"
    /\ st = "DummyStreamlit"
    /\ ~InteractiveMode
    /\ ~Absent(secrets)
    /\ ~Absent(environ)
    /\ environ # secrets
    /\ clientCalls = <<environ>>

====
